---- MODULE Spec2Model ----
(***************************************************************************)
(* Model of fashion_dashboard.py: one Streamlit script that is re-executed *)
(* from its first line on every user interaction.  A run walks through     *)
(* input acquisition (lines 36-79), the two schema-normalisation blocks    *)
(* (83-93, 98-116), the category filter (123-132), the KPI metrics         *)
(* (138-141), the trend chart (144-145), the forecast block (150-168) and  *)
(* the data table (171-172).  st.stop() ends a run with a diagnostic; an   *)
(* uncaught exception ends it with a traceback.                            *)
(*                                                                         *)
(* Column names are sequences of one-character strings so that strip(),    *)
(* lower(), capitalize() and the substring test are computed, not assumed. *)
(* A table is [none, cols, rows, index]: rows are sequences of cells       *)
(* aligned with cols, index holds the row labels; none marks Python's None.*)
(***************************************************************************)
EXTENDS Integers, Sequences, FiniteSets, TLC

VARIABLES
    use_db,               \* line 34: the "Use Database Instead" checkbox
    uploaded_file,        \* line 30: the parsed content of the upload, or None
    connect_clicked,      \* line 45: what st.sidebar.button("Connect") returns in this run
    trigger,              \* the interaction that started this run
    pc,                   \* position of the run in the script
    sales_data,           \* line 36
    categories,           \* line 126: one checkbox is rendered per entry
    selected_categories,  \* line 123
    filtered_data,        \* line 132
    kpi,                  \* lines 139-141: the three st.metric values
    forecast_period,      \* line 150
    fit_called,           \* lines 159-164: Prophet fit/predict invoked
    forecast_chart,       \* line 168: forecast chart rendered
    forecast_error,       \* line 154: "No data available for forecasting."
    diag,                 \* the st.error/st.warning shown right before st.stop()
    exc,                  \* the uncaught exception that ended the run, or "none"
    conn_opened,          \* number of mysql connections opened in this run
    conn_open             \* a connection is open (opened and not closed)

vars == <<use_db, uploaded_file, connect_clicked, trigger, pc, sales_data,
          categories, selected_categories, filtered_data, kpi, forecast_period, fit_called,
          forecast_chart, forecast_error, diag, exc, conn_opened, conn_open>>

----------------------------------------------------------------------------
(* Bounds of the model *)

\* most columns of an uploaded table
MaxCols == 3
\* most rows of an uploaded table
MaxRows == 2
\* most rows of a table the metrics are computed on
MaxKpiRows == 3

----------------------------------------------------------------------------
(* str.strip, str.lower, str.capitalize, the `in` substring test *)

UpperCase == <<"A","B","C","D","E","F","G","H","I","J","K","L","M",
               "N","O","P","Q","R","S","T","U","V","W","X","Y","Z">>
LowerCase == <<"a","b","c","d","e","f","g","h","i","j","k","l","m",
               "n","o","p","q","r","s","t","u","v","w","x","y","z">>
Whitespace == {" ", "\t"}

LowerChar(c) ==
    IF \E i \in DOMAIN UpperCase : UpperCase[i] = c
    THEN LowerCase[CHOOSE i \in DOMAIN UpperCase : UpperCase[i] = c]
    ELSE c

UpperChar(c) ==
    IF \E i \in DOMAIN LowerCase : LowerCase[i] = c
    THEN UpperCase[CHOOSE i \in DOMAIN LowerCase : LowerCase[i] = c]
    ELSE c

Lower(s) == [i \in DOMAIN s |-> LowerChar(s[i])]

RECURSIVE LStrip(_)
LStrip(s) ==
    IF s # << >> /\ Head(s) \in Whitespace THEN LStrip(Tail(s)) ELSE s

RECURSIVE RStrip(_)
RStrip(s) ==
    IF s # << >> /\ s[Len(s)] \in Whitespace
    THEN RStrip(SubSeq(s, 1, Len(s) - 1))
    ELSE s

Strip(s) == RStrip(LStrip(s))

Capitalize(s) ==
    [i \in DOMAIN s |-> IF i = 1 THEN UpperChar(s[i]) ELSE LowerChar(s[i])]

\* Python's  key in col
Contains(col, key) ==
    \E i \in 1..(Len(col) - Len(key) + 1) : SubSeq(col, i, i + Len(key) - 1) = key

----------------------------------------------------------------------------
(* Tables *)

None == [none |-> TRUE, cols |-> << >>, rows |-> << >>, index |-> << >>]

\* pd.DataFrame(...) and pd.read_csv(...): the rows get the labels 0, 1, ...
\* (a RangeIndex)
DataFrame(cols, rows) ==
    [none |-> FALSE, cols |-> cols, rows |-> rows,
     index |-> [r \in DOMAIN rows |-> r - 1]]

\* DataFrame.empty
Empty(df) == Len(df.cols) = 0 \/ Len(df.rows) = 0

\* positions of the columns labelled name
Positions(df, name) == {i \in DOMAIN df.cols : df.cols[i] = name}
ThePosition(df, name) == CHOOSE i \in DOMAIN df.cols : df.cols[i] = name

\* DataFrame.rename(columns={old: new}, inplace=True): every column labelled
\* old is relabelled; a missing old label is ignored (errors="ignore")
Rename(df, old, new) ==
    [df EXCEPT !.cols = [i \in DOMAIN df.cols |->
                            IF df.cols[i] = old THEN new ELSE df.cols[i]]]

\* sales_data.columns = sales_data.columns.str.strip().str.lower()
StandardizeColumns(df) ==
    [df EXCEPT !.cols = [i \in DOMAIN df.cols |-> Lower(Strip(df.cols[i]))]]

\* [col for col in sales_data.columns if key in col]
Matching(df, key) == SelectSeq(df.cols, LAMBDA col : Contains(col, key))

\* a cell as read from the source, and a cell of dtype datetime64
Raw(n) == [dt |-> FALSE, v |-> n]
Timestamp(n) == [dt |-> TRUE, v |-> n]

\* pd.to_datetime on one value: a parsed value is tagged datetime64, a
\* datetime64 value is returned as it is
ToDatetime(cell) == Timestamp(cell.v)

\* Timestamp.strftime('%Y-%m-%d'): the calendar day, without the dtype
Strftime(cell) == cell.v

\* sales_data[name] = pd.to_datetime(sales_data[name]), for a label that
\* names exactly one column
ConvertColumn(df, name) ==
    LET p == ThePosition(df, name) IN
    [df EXCEPT !.rows = [r \in DOMAIN df.rows |->
        [df.rows[r] EXCEPT ![p] = ToDatetime(df.rows[r][p])]]]

----------------------------------------------------------------------------
(* Schema normalizer, lines 83-116 *)

kDate     == <<"d","a","t","e">>
kSales    == <<"s","a","l","e","s">>
kCategory == <<"c","a","t","e","g","o","r","y">>

\* the keys of column_map in insertion order (lines 101-105)
Keys == <<kDate, kSales, kCategory>>

\* the literal "Date" of lines 88-89 and 116
cDate == <<"D","a","t","e">>

Outcome(status, df, field, error) ==
    [status |-> status, df |-> df, field |-> field, error |-> error]

\* lines 83-93.  sales_data["Date"] with two columns labelled "Date" is a
\* DataFrame, on which pd.to_datetime raises ValueError.
FirstDatePass(df0) ==
    IF df0.none THEN Outcome("raise", df0, << >>, "AttributeError")
    ELSE
    LET df1      == StandardizeColumns(df0)
        date_col == Matching(df1, kDate)
    IN  IF date_col # << >>
        THEN LET df2 == Rename(df1, date_col[1], cDate) IN
             IF Cardinality(Positions(df2, cDate)) = 1
             THEN Outcome("ok", ConvertColumn(df2, cDate), << >>, "none")
             ELSE Outcome("raise", df2, << >>, "ValueError")
        ELSE Outcome("stop", df1, cDate, "none")

\* lines 101-105: computed once, before the loop renames anything
ColumnMap(df) == [k \in DOMAIN Keys |-> Matching(df, Keys[k])]

\* lines 107-113: the loop over column_map.items(), from its k-th item on
RECURSIVE RenameLoop(_, _, _)
RenameLoop(df, column_map, k) ==
    IF k > Len(Keys) THEN Outcome("ok", df, << >>, "none")
    ELSE IF column_map[k] # << >>
         THEN RenameLoop(Rename(df, column_map[k][1], Capitalize(Keys[k])),
                         column_map, k + 1)
         ELSE Outcome("stop", df, Capitalize(Keys[k]), "none")

\* lines 98-116
ColumnMapPass(df0) ==
    LET df1  == StandardizeColumns(df0)
        loop == RenameLoop(df1, ColumnMap(df1), 1)
    IN  IF loop.status # "ok" THEN loop
        ELSE IF Cardinality(Positions(loop.df, cDate)) = 1
             THEN Outcome("ok", ConvertColumn(loop.df, cDate), << >>, "none")
             ELSE Outcome("raise", loop.df, << >>,
                          IF Positions(loop.df, cDate) = {} THEN "KeyError"
                                                            ELSE "ValueError")

\* lines 83-116 as a whole
Normalizer(df) ==
    LET first == FirstDatePass(df) IN
    IF first.status = "ok" THEN ColumnMapPass(first.df) ELSE first

----------------------------------------------------------------------------
(* Category filter, lines 123-132 *)

cSales    == <<"S","a","l","e","s">>
cCategory == <<"C","a","t","e","g","o","r","y">>

\* df[name] for a label that names exactly one column
Column(df, name) ==
    [r \in DOMAIN df.rows |-> df.rows[r][ThePosition(df, name)]]

Range(seq) == {seq[i] : i \in DOMAIN seq}

\* Series.unique(): the distinct values in order of first appearance
RECURSIVE Unique(_)
Unique(seq) ==
    IF seq = << >> THEN << >>
    ELSE LET init == SubSeq(seq, 1, Len(seq) - 1)
             last == seq[Len(seq)]
         IN  IF last \in Range(init) THEN Unique(init)
             ELSE Append(Unique(init), last)

\* df[name].isin(values) as a mask: the positions of the rows it keeps,
\* in table order
IsIn(df, name, values) ==
    SelectSeq([r \in DOMAIN df.rows |-> r],
              LAMBDA r : Column(df, name)[r] \in values)

\* df[mask]: the kept rows with their labels, in table order
Take(df, rs) ==
    [df EXCEPT !.rows  = [i \in DOMAIN rs |-> df.rows[rs[i]]],
               !.index = [i \in DOMAIN rs |-> df.index[rs[i]]]]

\* line 132 with the full table standing in for "nothing selected"
FilterRowsOrAll(df, selected) ==
    IF selected # << >>
    THEN Take(df, IsIn(df, cCategory, Range(selected)))
    ELSE df

\* line 132
FilterRows(df, selected) ==
    IF selected # << >>
    THEN Take(df, IsIn(df, cCategory, Range(selected)))
    ELSE Take(df, << >>)

----------------------------------------------------------------------------
(* KPI metrics, lines 138-141 *)

NoKpi == [shown |-> FALSE, series |-> FALSE, total |-> 0,
          top |-> [na |-> TRUE, v |-> 0], day |-> [na |-> TRUE, v |-> 0]]

RECURSIVE Sum(_)
Sum(seq) == IF seq = << >> THEN 0 ELSE seq[1].v + Sum(Tail(seq))

\* idxmax() returning the last occurrence of the maximum
IdxMaxLast(values) ==
    CHOOSE i \in DOMAIN values :
        /\ \A j \in DOMAIN values : values[j] <= values[i]
        /\ \A j \in (i + 1)..Len(values) : values[j] < values[i]

\* Series.idxmax(): the position of the first occurrence of the maximum
IdxMax(values) ==
    CHOOSE i \in DOMAIN values :
        /\ \A j \in DOMAIN values : values[j] <= values[i]
        /\ \A j \in 1..(i - 1) : values[j] < values[i]

\* groupby("Category")["Sales"].sum(): one entry per category, sorted by
\* the group key (sort=True is the default)
RECURSIVE SortedKeys(_)
SortedKeys(S) ==
    IF S = {} THEN << >>
    ELSE LET m == CHOOSE x \in S : \A y \in S : x.v <= y.v
         IN  <<m>> \o SortedKeys(S \ {m})

GroupSums(df) ==
    LET cat  == Column(df, cCategory)
        keys == SortedKeys(Range(cat))
    IN  [k \in DOMAIN keys |->
            [key |-> keys[k],
             sum |-> Sum(Column(Take(df, IsIn(df, cCategory, {keys[k]})), cSales))]]

\* line 140
TopCategory(df) ==
    LET g == GroupSums(df) IN g[IdxMax([k \in DOMAIN g |-> g[k].sum])].key

\* df.loc[label, name]
Loc(df, label, name) ==
    df.rows[CHOOSE r \in DOMAIN df.index : df.index[r] = label][ThePosition(df, name)]

\* line 141
HighestSalesDay(df) ==
    LET sal   == Column(df, cSales)
        label == df.index[IdxMax([r \in DOMAIN sal |-> sal[r].v])]
    IN  Strftime(Loc(df, label, cDate))

Count(df, name) == Cardinality(Positions(df, name))

\* lines 139-141.  With two columns labelled "Sales" the sum is a Series
\* (shown as text) and idxmax() yields a Series, which st.metric and .loc
\* reject.
Metrics(df) ==
    IF Count(df, cSales) = 0 THEN [status |-> "raise", error |-> "KeyError", kpi |-> NoKpi]
    ELSE IF Empty(df)
    THEN [status |-> "ok", error |-> "none",
          kpi |-> [shown |-> TRUE, series |-> Count(df, cSales) > 1, total |-> 0,
                   top |-> [na |-> TRUE, v |-> 0], day |-> [na |-> TRUE, v |-> 0]]]
    ELSE IF Count(df, cCategory) = 0
    THEN [status |-> "raise", error |-> "KeyError", kpi |-> NoKpi]
    ELSE IF Count(df, cSales) > 1 \/ Count(df, cCategory) > 1 \/ Count(df, cDate) # 1
    THEN [status |-> "raise", error |-> "TypeError", kpi |-> NoKpi]
    ELSE [status |-> "ok", error |-> "none",
          kpi |-> [shown |-> TRUE, series |-> FALSE,
                   total |-> Sum(Column(df, cSales)),
                   top |-> [na |-> FALSE, v |-> TopCategory(df).v],
                   day |-> [na |-> FALSE, v |-> HighestSalesDay(df)]]]

----------------------------------------------------------------------------
(* Inputs *)

\* the values a cell of an input table takes: a day as a date, a quantity
\* as sales, a label as category
CellValues == {1, 2}
Cells == {Raw(v) : v \in CellValues}

nDate          == <<"D","a","t","e">>
nDatePadded    == <<" ","d","a","t","e">>
nSales         == <<"S","a","l","e","s">>
nCategory      == <<"C","a","t","e","g","o","r","y">>
nSalesCategory == <<"S","a","l","e","s","_","C","a","t","e","g","o","r","y">>
nSalesDate     == <<"S","a","l","e","s"," ","D","a","t","e">>

ColumnNames == {nDate, nDatePadded, nSales, nCategory, nSalesCategory, nSalesDate}

\* header rows: pd.read_csv makes repeated names distinct, and a file
\* without a header row does not parse
HeadersOfLength(n) ==
    {h \in [1..n -> ColumnNames] : \A i, j \in 1..n : h[i] = h[j] => i = j}
Headers == UNION {HeadersOfLength(n) : n \in 1..MaxCols}

\* up to maxrows rows of ncols cells each
RowsFor(ncols, maxrows) ==
    UNION {[1..n -> [1..ncols -> Cells]] : n \in 0..maxrows}

\* the same, every row holding one value in all its cells: enough to vary
\* the number of rows and the categories present, on which the course of a
\* run depends
UniformRowsFor(ncols, maxrows) ==
    UNION {[1..n -> {[c \in 1..ncols |-> cell] : cell \in Cells}] : n \in 0..maxrows}

\* the header of the uploads of the runs that exercise filter and metrics
KpiHeader == <<nSales, nDatePadded, nCategory>>

\* the keys of the dictionary rows cursor.fetchall() returns (line 57)
QueryHeaders == {<<nDate, nCategory, nSales>>, <<nSalesDate, nCategory>>}

\* how lines 47-59 end: connect() raises, execute()/fetchall() raises, or
\* the rows are fetched and cursor and connection are closed
ConnectErrors == {"connect", "query", "none"}

\* The database path never reads the upload (line 38 is tested before line
\* 73), so these uploads stand for all while the toggle is on.
UploadsUnderDatabase == {None, DataFrame(<<nDate, nCategory, nSales>>, << >>)}

\* the slider of line 150
MinHorizon == 7
DefaultHorizon == 30
MaxHorizon == 365
Horizons == {MinHorizon, DefaultHorizon, MaxHorizon}

----------------------------------------------------------------------------
(* The run *)

NoDiag == [kind |-> "none", field |-> << >>, columns |-> << >>]

Terminal == pc \in {"done", "stopped", "crashed"}

\* the script starts again from line 1
StartRun(why) ==
    /\ trigger' = why
    /\ pc' = "acquire"
    /\ sales_data' = None
    /\ categories' = << >>
    /\ selected_categories' = << >>
    /\ filtered_data' = None
    /\ kpi' = NoKpi
    /\ forecast_period' = 0
    /\ fit_called' = FALSE
    /\ forecast_chart' = FALSE
    /\ forecast_error' = FALSE
    /\ diag' = NoDiag
    /\ exc' = "none"
    /\ conn_opened' = 0
    /\ conn_open' = FALSE

Init ==
    /\ use_db = FALSE
    /\ uploaded_file = None
    /\ connect_clicked = FALSE
    /\ trigger = "load"
    /\ pc = "acquire"
    /\ sales_data = None
    /\ categories = << >>
    /\ selected_categories = << >>
    /\ filtered_data = None
    /\ kpi = NoKpi
    /\ forecast_period = 0
    /\ fit_called = FALSE
    /\ forecast_chart = FALSE
    /\ forecast_error = FALSE
    /\ diag = NoDiag
    /\ exc = "none"
    /\ conn_opened = 0
    /\ conn_open = FALSE

session == <<use_db, uploaded_file, connect_clicked, trigger>>
later == <<categories, selected_categories, filtered_data, kpi, forecast_period,
           fit_called, forecast_chart, forecast_error>>

\* lines 61-66 with the empty-rows branch dropped: pd.DataFrame([]) has no
\* columns
FetchedTableNoFallback(h, rows) ==
    DataFrame(IF rows # << >> THEN h ELSE << >>, rows)

\* lines 61-66: the table made of the fetched rows
FetchedTable(h, rows) ==
    IF rows # << >>
    THEN DataFrame(h, rows)
    ELSE DataFrame(<<cDate, cCategory, cSales>>, << >>)

\* lines 38-70 with the Connect button pressed
ConnectDatabase ==
    /\ pc = "acquire" /\ use_db /\ connect_clicked
    /\ \E error \in ConnectErrors :
        /\ conn_opened' = (IF error = "connect" THEN 0 ELSE 1)
        /\ conn_open' = (error = "query")
        /\ IF error = "none"
           THEN /\ \E h \in QueryHeaders : \E rows \in UniformRowsFor(Len(h), MaxRows) :
                      sales_data' = FetchedTable(h, rows)
                /\ pc' = "normalize_date"
                /\ diag' = diag
           ELSE /\ sales_data' = sales_data
                /\ pc' = "stopped"
                /\ diag' = [NoDiag EXCEPT !.kind = "connection"]
    /\ UNCHANGED <<session, later, exc>>

\* lines 38-45 with the Connect button not pressed: no branch assigns
\* sales_data and control reaches line 83
SkipConnect ==
    /\ pc = "acquire" /\ use_db /\ ~connect_clicked
    /\ pc' = "normalize_date"
    /\ UNCHANGED <<session, later, sales_data, diag, exc, conn_opened, conn_open>>

\* lines 73-75
LoadCsv ==
    /\ pc = "acquire" /\ ~use_db /\ ~uploaded_file.none
    /\ sales_data' = uploaded_file
    /\ pc' = "normalize_date"
    /\ UNCHANGED <<session, later, diag, exc, conn_opened, conn_open>>

\* lines 77-79
PromptForInput ==
    /\ pc = "acquire" /\ ~use_db /\ uploaded_file.none
    /\ diag' = [NoDiag EXCEPT !.kind = "prompt"]
    /\ pc' = "stopped"
    /\ UNCHANGED <<session, later, sales_data, exc, conn_opened, conn_open>>

\* how a normalizer block leaves the run
Leave(o, next) ==
    /\ sales_data' = o.df
    /\ pc' = (CASE o.status = "ok" -> next
                [] o.status = "stop" -> "stopped"
                [] o.status = "raise" -> "crashed")
    /\ diag' = (IF o.status = "stop"
                THEN [kind |-> "missing", field |-> o.field, columns |-> o.df.cols]
                ELSE diag)
    /\ exc' = o.error

\* lines 83-93
NormalizeDate ==
    /\ pc = "normalize_date"
    /\ Leave(FirstDatePass(sales_data), "normalize_columns")
    /\ UNCHANGED <<session, later, conn_opened, conn_open>>

\* lines 98-119
NormalizeColumns ==
    /\ pc = "normalize_columns"
    /\ Leave(ColumnMapPass(sales_data), "filter")
    /\ UNCHANGED <<session, later, conn_opened, conn_open>>

\* lines 123-132.  sales_data["Category"] raises KeyError without such a
\* column and is a DataFrame, which has no unique(), with two of them.
SelectCategories ==
    /\ pc = "filter"
    /\ IF ~Empty(sales_data) /\ Count(sales_data, cCategory) # 1
       THEN /\ exc' = (IF Count(sales_data, cCategory) = 0 THEN "KeyError"
                                                            ELSE "AttributeError")
            /\ pc' = "crashed"
            /\ UNCHANGED <<categories, selected_categories, filtered_data>>
       ELSE /\ categories' = (IF Empty(sales_data) THEN << >>
                              ELSE Unique(Column(sales_data, cCategory)))
            \* one checkbox per category; the checked ones, in order
            /\ \E checked \in SUBSET Range(categories') :
                  selected_categories' =
                      SelectSeq(categories', LAMBDA c : c \in checked)
            /\ filtered_data' = FilterRows(sales_data, selected_categories')
            /\ pc' = "metrics"
            /\ exc' = exc
    /\ UNCHANGED <<session, sales_data, kpi, forecast_period, fit_called,
                   forecast_chart, forecast_error, diag, conn_opened, conn_open>>

\* lines 135-141
ShowMetrics ==
    /\ pc = "metrics"
    /\ LET m == Metrics(filtered_data) IN
        /\ kpi' = m.kpi
        /\ exc' = m.error
        /\ pc' = (IF m.status = "ok" THEN "trend" ELSE "crashed")
    /\ UNCHANGED <<session, sales_data, categories, selected_categories,
                   filtered_data, forecast_period, fit_called, forecast_chart,
                   forecast_error, diag, conn_opened, conn_open>>

\* px.line(df, x=, y=, color=) raises ValueError unless each name is the
\* label of one column of df
PxLineAccepts(df, names) == \A i \in DOMAIN names : Count(df, names[i]) = 1

\* lines 144-145
TrendChart ==
    /\ pc = "trend"
    /\ IF PxLineAccepts(filtered_data, <<cDate, cSales, cCategory>>)
       THEN pc' = "forecast" /\ exc' = exc
       ELSE pc' = "crashed" /\ exc' = "ValueError"
    /\ UNCHANGED <<session, sales_data, later, diag, conn_opened, conn_open>>

\* line 153 testing for a table without columns instead of one without rows
NoForecastDataByColumns(df) == Len(df.cols) = 0

\* line 153
NoForecastData(df) == Empty(df)

\* lines 148-168.  Prophet is an external model: fit/predict either returns
\* or raises, whatever the history it is given.
Forecast ==
    /\ pc = "forecast"
    /\ \E days \in Horizons : forecast_period' = days
    /\ IF NoForecastData(filtered_data)
       THEN /\ forecast_error' = TRUE
            /\ pc' = "table"
            /\ UNCHANGED <<fit_called, forecast_chart, exc>>
       ELSE /\ fit_called' = TRUE
            /\ forecast_error' = forecast_error
            /\ \E fitted \in BOOLEAN :
                  /\ forecast_chart' = fitted
                  /\ pc' = (IF fitted THEN "table" ELSE "crashed")
                  /\ exc' = (IF fitted THEN exc ELSE "ProphetError")
    /\ UNCHANGED <<session, sales_data, categories, selected_categories,
                   filtered_data, kpi, diag, conn_opened, conn_open>>

\* lines 171-172
ShowDataTable ==
    /\ pc = "table"
    /\ pc' = "done"
    /\ UNCHANGED <<session, sales_data, later, diag, exc, conn_opened, conn_open>>

----------------------------------------------------------------------------
(* Interactions: each one makes the framework run the script again *)

\* a file is chosen in the uploader (line 30), while the file path is the
\* one taken (see UploadsUnderDatabase)
UploadFile ==
    /\ Terminal /\ uploaded_file.none /\ ~use_db
    \* what pd.read_csv(uploaded_file) will return (line 74)
    /\ \E h \in Headers : \E rows \in UniformRowsFor(Len(h), MaxRows) :
          uploaded_file' = DataFrame(h, rows)
    /\ connect_clicked' = FALSE
    /\ UNCHANGED use_db
    /\ StartRun("source")

\* the file is removed from the uploader (line 30)
RemoveFile ==
    /\ Terminal /\ ~uploaded_file.none
    /\ uploaded_file' = None
    /\ connect_clicked' = FALSE
    /\ UNCHANGED use_db
    /\ StartRun("source")

\* the "Use Database Instead" checkbox is flipped (line 34)
ToggleDatabase ==
    /\ Terminal
    /\ use_db \/ uploaded_file \in UploadsUnderDatabase
    /\ use_db' = ~use_db
    /\ connect_clicked' = FALSE
    /\ UNCHANGED uploaded_file
    /\ StartRun("source")

\* the Connect button is pressed (line 45): it reports TRUE in the run its
\* press starts and FALSE in every other run
ClickConnect ==
    /\ Terminal /\ use_db
    /\ connect_clicked' = TRUE
    /\ UNCHANGED <<use_db, uploaded_file>>
    /\ StartRun("source")

\* a category checkbox (line 128) or the horizon slider (line 150) that the
\* last run rendered is changed; the new values are read where the run
\* reaches the widget
ChangeWidget ==
    /\ Terminal
    /\ categories # << >> \/ forecast_period # 0
    /\ connect_clicked' = FALSE
    /\ UNCHANGED <<use_db, uploaded_file>>
    /\ StartRun("widget")

Next ==
    \/ ConnectDatabase
    \/ SkipConnect
    \/ LoadCsv
    \/ PromptForInput
    \/ NormalizeDate
    \/ NormalizeColumns
    \/ SelectCategories
    \/ ShowMetrics
    \/ TrendChart
    \/ Forecast
    \/ ShowDataTable
    \/ UploadFile
    \/ RemoveFile
    \/ ToggleDatabase
    \/ ClickConnect
    \/ ChangeWidget

Spec == Init /\ [][Next]_vars

\* one run on an uploaded table, from the first line to the metrics
InitKpi ==
    /\ use_db = FALSE
    /\ \E rows \in RowsFor(Len(KpiHeader), MaxKpiRows) :
          uploaded_file = DataFrame(KpiHeader, rows)
    /\ connect_clicked = FALSE
    /\ trigger = "source"
    /\ pc = "acquire"
    /\ sales_data = None
    /\ categories = << >>
    /\ selected_categories = << >>
    /\ filtered_data = None
    /\ kpi = NoKpi
    /\ forecast_period = 0
    /\ fit_called = FALSE
    /\ forecast_chart = FALSE
    /\ forecast_error = FALSE
    /\ diag = NoDiag
    /\ exc = "none"
    /\ conn_opened = 0
    /\ conn_open = FALSE

NextKpi ==
    \/ LoadCsv
    \/ NormalizeDate
    \/ NormalizeColumns
    \/ SelectCategories
    \/ ShowMetrics

SpecKpi == InitKpi /\ [][NextKpi]_vars

----------------------------------------------------------------------------
(* Properties *)

\* the statements of one run of the script
RunStep ==
    \/ ConnectDatabase \/ SkipConnect \/ LoadCsv \/ PromptForInput
    \/ NormalizeDate \/ NormalizeColumns \/ SelectCategories
    \/ ShowMetrics \/ TrendChart \/ Forecast \/ ShowDataTable

AfterNormalizer == {"filter", "metrics", "trend", "forecast", "table", "done"}

ExactlyCanonical(df) ==
    Count(df, cDate) = 1 /\ Count(df, cSales) = 1 /\ Count(df, cCategory) = 1

ZeroKpi ==
    /\ kpi.shown /\ ~kpi.series /\ kpi.total = 0
    /\ kpi.top.na /\ kpi.day.na

\* neither an upload on the file path nor a pressed Connect on the
\* database path
NoSource == (~use_db /\ uploaded_file.none) \/ (use_db /\ ~connect_clicked)

\* C1: Input Acquisition either produces a table or ends the run with a
\* diagnostic: the normalizer never starts without a table, and a run
\* without a source ends with the prompt to supply one.
C1_AcquisitionYieldsTableOrPrompt ==
    /\ pc = "normalize_date" => ~sales_data.none
    /\ (pc # "acquire" /\ NoSource) => (pc = "stopped" /\ diag.kind = "prompt")

\* C2: a run started by changing a category checkbox or the slider reaches
\* the data table (a failure inside the external model aside), and with
\* every category unchecked it shows an empty table, 0 / N/A / N/A and the
\* forecast diagnostic.
C2_WidgetChangeReachesDataTable ==
    (trigger = "widget" /\ Terminal) =>
        /\ pc = "done" \/ exc = "ProphetError"
        /\ (pc = "done" /\ selected_categories = << >>) =>
              /\ Empty(filtered_data)
              /\ ZeroKpi
              /\ forecast_error /\ ~fit_called

\* C3: the normalizer ends with exactly one Date, one Sales and one
\* Category column or with the schema-missing diagnostic, and no run is
\* past the normalizer without the three columns.
C3_NormalizerAllOrNothing ==
    /\ (pc = "normalize_date" /\ ~sales_data.none) =>
          LET o == Normalizer(sales_data) IN
          \/ o.status = "ok" /\ ExactlyCanonical(o.df)
          \/ o.status = "stop"
    /\ pc \in AfterNormalizer => ExactlyCanonical(sales_data)

\* the column names after each field in turn (date, sales, category) has
\* renamed the first column, in column order, whose name contains it
RECURSIVE FirstMatchRenamed(_, _)
FirstMatchRenamed(cols, k) ==
    IF k > Len(Keys) THEN cols
    ELSE LET m == {i \in DOMAIN cols : Contains(Lower(cols[i]), Keys[k])} IN
         IF m = {} THEN cols
         ELSE LET first == CHOOSE i \in m : \A j \in m : i <= j IN
              FirstMatchRenamed([cols EXCEPT ![first] = Capitalize(Keys[k])], k + 1)

\* C4: the normalizer renames the first matching column of each field and
\* no other column, and running it on its own output gives the same table
\* and the same outcome.
C4_FirstMatchRenamedAndIdempotent ==
    (pc = "normalize_date" /\ ~sales_data.none) =>
        LET o     == Normalizer(sales_data)
            again == Normalizer(o.df)
        IN  /\ again.status = o.status
            /\ again.field = o.field
            /\ again.df = o.df
            /\ o.status = "ok" =>
                  o.df.cols =
                      FirstMatchRenamed(StandardizeColumns(sales_data).cols, 1)

\* the fields no trimmed, lower-cased column name contains
MissingFields(df) ==
    {k \in DOMAIN Keys : Matching(StandardizeColumns(df), Keys[k]) = << >>}

\* C5: with exactly one field missing, the normalizer stops the run with
\* the error naming that field and listing the columns, and no later stage
\* runs.
C5_MissingFieldIsNamed ==
    /\ (pc = "normalize_date" /\ ~sales_data.none
           /\ Cardinality(MissingFields(sales_data)) = 1) =>
          LET o == Normalizer(sales_data)
              k == CHOOSE k \in MissingFields(sales_data) : TRUE
          IN  o.status = "stop" /\ o.field = Capitalize(Keys[k])
    /\ diag.kind = "missing" =>
          /\ pc = "stopped" /\ diag.columns = sales_data.cols
          /\ ~kpi.shown /\ forecast_period = 0 /\ filtered_data.none

\* C6: the filtered table holds exactly the rows whose category is checked,
\* in table order and unchanged, no row when nothing is checked, and the
\* unfiltered table is the one the normalizer left.
C6_FilterSelectsExactlyCheckedRows ==
    pc \in {"metrics", "trend"} =>
        LET p == ThePosition(sales_data, cCategory) IN
        /\ Range(selected_categories) \subseteq Range(categories)
        /\ filtered_data.cols = sales_data.cols
        /\ filtered_data.rows =
              SelectSeq(sales_data.rows,
                        LAMBDA row : row[p] \in Range(selected_categories))
        /\ selected_categories = << >> => filtered_data.rows = << >>
        /\ sales_data = Normalizer(uploaded_file).df

C6_Witness ==
    /\ pc = "metrics"
    /\ Len(sales_data.rows) = 3
    /\ Len(filtered_data.rows) = 2
    /\ filtered_data.index = <<0, 2>>

\* C7: a connection opened in a run is closed when the run ends, also when
\* the query raises, and a run opens at most one.
C7_ConnectionClosedByRunEnd ==
    Terminal => (~conn_open /\ conn_opened <= 1)

RECURSIVE SumOver(_, _)
SumOver(S, g) ==
    IF S = {} THEN 0
    ELSE LET x == CHOOSE x \in S : TRUE IN g[x] + SumOver(S \ {x}, g)

\* C8: Total Sales is the sum over the filtered rows, Top Selling Category
\* a category of maximal summed sales, Highest Sales Day the date of the
\* first row with the largest sales; 0, N/A and N/A on an empty table.
C8_MetricsEqualReference ==
    pc = "trend" =>
        LET f    == filtered_data
            rs   == DOMAIN f.rows
            sal  == [r \in rs |-> f.rows[r][ThePosition(f, cSales)].v]
            cat  == [r \in rs |-> f.rows[r][ThePosition(f, cCategory)].v]
            day  == [r \in rs |-> f.rows[r][ThePosition(f, cDate)].v]
            CategoryTotal(c) == SumOver({r \in rs : cat[r] = c}, sal)
        IN  /\ kpi.shown /\ ~kpi.series
            /\ kpi.total = SumOver(rs, sal)
            /\ IF rs = {}
               THEN kpi.total = 0 /\ kpi.top.na /\ kpi.day.na
               ELSE /\ ~kpi.top.na /\ ~kpi.day.na
                    /\ \E r \in rs : cat[r] = kpi.top.v
                    /\ \A r \in rs : CategoryTotal(cat[r]) <= CategoryTotal(kpi.top.v)
                    /\ \E r \in rs :
                          /\ \A j \in rs : sal[j] <= sal[r]
                          /\ \A j \in rs : j < r => sal[j] < sal[r]
                          /\ kpi.day.v = day[r]

\* the two rows with the largest sales fall on different days, and their
\* category, the second in sort order, has the largest sum
C8_Witness ==
    /\ pc = "trend"
    /\ Len(filtered_data.rows) = 3
    /\ LET f   == filtered_data
           sal == [r \in DOMAIN f.rows |-> f.rows[r][ThePosition(f, cSales)].v]
           cat == [r \in DOMAIN f.rows |-> f.rows[r][ThePosition(f, cCategory)].v]
           day == [r \in DOMAIN f.rows |-> f.rows[r][ThePosition(f, cDate)].v]
       IN  /\ sal = <<2, 1, 2>> /\ cat = <<2, 1, 2>> /\ day = <<2, 1, 1>>
           /\ kpi.total = 5 /\ kpi.top.v = 2 /\ kpi.day.v = 2

\* the Connect of this run fetched zero rows
ZeroRowsFetched ==
    /\ use_db /\ connect_clicked /\ pc # "acquire"
    /\ conn_opened = 1 /\ ~conn_open
    /\ sales_data.rows = << >>

\* C9: when the query returns zero rows the run gets an empty table with
\* the columns Date, Category, Sales, the normalizer reports no missing
\* field, no checkbox is made, and the run goes on to the end showing
\* 0 units / N/A / N/A.
C9_EmptyResultRunsToTheEnd ==
    ZeroRowsFetched =>
        /\ pc \in {"normalize_date"} \cup AfterNormalizer =>
              sales_data.cols = <<cDate, cCategory, cSales>>
        /\ diag.kind = "none" /\ exc = "none"
        /\ pc \notin {"stopped", "crashed"}
        /\ categories = << >> /\ selected_categories = << >>
        /\ pc # "done" => ENABLED RunStep
        /\ pc \in {"trend", "forecast", "table", "done"} => ZeroKpi
        /\ pc \in {"table", "done"} => forecast_error /\ ~fit_called

C9_Witness == ZeroRowsFetched /\ pc = "done" /\ ZeroKpi

\* C10: past the forecast block, fit/predict was called exactly when the
\* filtered table has rows; without rows the diagnostic is shown, no
\* forecast chart is drawn and the run goes on to the data table.
C10_ForecastIffFilteredNonEmpty ==
    forecast_period # 0 =>
        /\ fit_called <=> ~Empty(filtered_data)
        /\ forecast_error <=> Empty(filtered_data)
        /\ Empty(filtered_data) =>
              /\ ~forecast_chart /\ exc = "none"
              /\ pc \in {"table", "done"}
        /\ pc = "table" => ENABLED ShowDataTable

\* every category of a table with rows was unchecked
C10_Witness ==
    /\ pc = "done" /\ forecast_period # 0
    /\ categories # << >> /\ Empty(filtered_data)
    /\ forecast_error /\ ~fit_called /\ ~forecast_chart

====
